---- MODULE Spec2Model ----
(***************************************************************************)
(* Model of recapn's data blob views (recapn/src/data.rs): the Reader and  *)
(* Builder views over arena memory, their construction, projection,        *)
(* in-place writes and byte-wise equality.                                 *)
(*                                                                         *)
(* Arena memory is an array of bytes; a handle is a (ptr, len) pair; a     *)
(* view is the Data newtype around one handle.  The pointer-primitive      *)
(* layer (crate::ptr::BlobReader / BlobBuilder) is outside data.rs and is  *)
(* modelled from its documented contract (the ptr_* definitions).          *)
(* Lengths stay far below 2^32, so the u32 / usize casts of len() lose     *)
(* nothing and are not modelled as modular arithmetic.                     *)
(***************************************************************************)
EXTENDS Integers, Sequences, FiniteSets, TLC

VARIABLES mem, r, b, res, pc

vars == <<mem, r, b, res, pc>>

(* ------------------------------ bounds --------------------------------- *)

\* Number of bytes of arena memory the model addresses.
MemSize == 4

\* The arena places the blob of a Builder at an address up to this one.
MaxBuilderAddr == 1

\* The byte values a cell may hold (a sample of u8).
Byte == {0, 9}

(* ------------------- pointer-primitive layer (crate::ptr) --------------- *)

\* The format's maximum blob length (ElementCount's maximum), scaled down.
MAX_BLOB_LEN == 2

\* The address an empty handle carries: it refers to no arena memory.
NoMemory == MemSize + 1

Addr == 0..(MemSize - 1)

None == [tag |-> "None"]

Some(x) == [tag |-> "Some", val |-> x]

\* Every byte slice a caller can borrow: a run of arena memory, or the
\* empty slice over no memory.
Slices ==
    {s \in [ptr : 0..MemSize, len : 0..MemSize] : s.ptr + s.len <= MemSize}
    \cup {[ptr |-> NoMemory, len |-> 0]}

\* The handles the arena layer may hand out: already within the bound.
ValidHandles == {h \in Slices : h.len <= MAX_BLOB_LEN}

\* The handles the arena layer may hand out for exclusive (mutable) access.
BuilderHandles ==
    {h \in ValidHandles : h.ptr <= MaxBuilderAddr \/ h.ptr = NoMemory}

\* core::slice::from_raw_parts: the len bytes starting at data.
from_raw_parts(m, data, len) == [k \in 1..len |-> m[data + k - 1]]

\* The bytes a borrowed slice holds.
SliceBytes(m, s) == from_raw_parts(m, s.ptr, s.len)

ptr_Reader_empty == [ptr |-> NoMemory, len |-> 0]

ptr_Reader_new(slice) ==
    IF slice.len > MAX_BLOB_LEN THEN None
    ELSE Some([ptr |-> slice.ptr, len |-> slice.len])

ptr_Reader_new_unchecked(data, len) == [ptr |-> data, len |-> len]

ptr_Reader_len(h) == h.len

ptr_Reader_as_slice(m, h) == from_raw_parts(m, h.ptr, h.len)

ptr_Builder_empty == [ptr |-> NoMemory, len |-> 0]

ptr_Builder_len(h) == h.len

ptr_Builder_data(h) == h.ptr

(* ------------------------------ data.rs -------------------------------- *)

\* struct Data<T>(T): the newtype around one representation handle.
Data(repr) == [repr |-> repr]

TryFromSliceError == [kind |-> "TryFromSliceError"]

\* impl fmt::Display for TryFromSliceError
TryFromSliceError_fmt(e) ==
    "attempted to create a data blob from too large a slice"

Ok(x) == [tag |-> "Ok", val |-> x]

Err(e) == [tag |-> "Err", err |-> e]

Panic(msg) == [tag |-> "Panic", msg |-> msg]

\* impl From<ptr::Reader> for Reader
Reader_from_ptr(repr) == Data(repr)

\* impl From<Reader> for ptr::Reader
ptr_Reader_from(value) == value.repr

Reader_empty == Data(ptr_Reader_empty)

\* Mutant: the fault carries the construction error's text.
Reader_from_slice_DisplayMsg(slice) ==
    LET o == ptr_Reader_new(slice)
    IN  IF o.tag = "Some" THEN Ok(Data(o.val))
        ELSE Panic(TryFromSliceError_fmt(TryFromSliceError))

\* Mutant: the limit itself is rejected (>= where > is meant).
Reader_from_slice_OffByOne(slice) ==
    LET o == ptr_Reader_new(slice)
    IN  IF o.tag = "Some" /\ slice.len < MAX_BLOB_LEN THEN Ok(Data(o.val))
        ELSE Panic("slice is too large to be contained within a cap'n proto message")

\* Reader::from_slice: Ok(reader) on return, Panic(message) on the fault.
Reader_from_slice(slice) ==
    LET o == ptr_Reader_new(slice)
    IN  IF o.tag = "Some" THEN Ok(Data(o.val))
        ELSE Panic("slice is too large to be contained within a cap'n proto message")

\* Mutant: an oversized slice is clipped to the maximum instead of rejected.
Reader_try_from_slice_Clip(slice) ==
    LET o == ptr_Reader_new(slice)
    IN  IF o.tag = "Some" THEN Ok(Data(o.val))
        ELSE Ok(Data(ptr_Reader_new_unchecked(slice.ptr, MAX_BLOB_LEN)))

\* Mutant: the validation is skipped.
Reader_try_from_slice_Unchecked(slice) ==
    Ok(Data(ptr_Reader_new_unchecked(slice.ptr, slice.len)))

\* Mutant: the handle is built from the wrong end of the slice.
Reader_try_from_slice_Shifted(slice) ==
    LET o == ptr_Reader_new(slice)
    IN  IF o.tag = "Some"
        THEN Ok(Data([ptr |-> IF slice.len > 1 THEN slice.ptr + 1 ELSE slice.ptr,
                      len |-> IF slice.len > 1 THEN slice.len - 1 ELSE slice.len]))
        ELSE Err(TryFromSliceError)

Reader_try_from_slice(slice) ==
    LET o == ptr_Reader_new(slice)
    IN  IF o.tag = "Some" THEN Ok(Data(o.val))
        ELSE Err(TryFromSliceError)

Reader_len(self) == ptr_Reader_len(self.repr)

\* Mutant: emptiness is read off the pointer instead of the length.
Reader_is_empty_ByPtr(self) == self.repr.ptr = NoMemory

Reader_is_empty(self) == Reader_len(self) = 0

Reader_as_slice(m, self) == ptr_Reader_as_slice(m, self.repr)

\* impl Deref for Reader
Reader_deref(m, self) == Reader_as_slice(m, self)

\* impl Default for Reader
Reader_default == Reader_empty

\* [u8] == [u8]: equal lengths, then element by element.
SliceEq(x, y) ==
    IF Len(x) # Len(y) THEN FALSE
    ELSE \A k \in 1..Len(x) : x[k] = y[k]

\* impl PartialEq<Reader> for Reader
Reader_eq_Reader(m, self, other) ==
    SliceEq(Reader_as_slice(m, self), Reader_as_slice(m, other))

\* impl PartialEq<[u8]> for Reader
Reader_eq_bytes(m, self, other) == SliceEq(Reader_as_slice(m, self), other)

\* impl PartialEq<Reader> for [u8]
bytes_eq_Reader(m, self, other) == SliceEq(self, Reader_as_slice(m, other))

\* impl From<ptr::Builder> for Builder
Builder_from_ptr(repr) == Data(repr)

\* impl From<Builder> for ptr::Builder
ptr_Builder_from(value) == value.repr

Builder_empty == Data(ptr_Builder_empty)

Builder_len(self) == ptr_Builder_len(self.repr)

\* Mutant: the projection drops the last byte.
Builder_as_reader_Short(self) ==
    Data(ptr_Reader_new_unchecked(ptr_Builder_data(self.repr),
            IF ptr_Builder_len(self.repr) > 0
            THEN ptr_Builder_len(self.repr) - 1 ELSE 0))

Builder_as_reader(self) ==
    Data(ptr_Reader_new_unchecked(ptr_Builder_data(self.repr),
                                  ptr_Builder_len(self.repr)))

Builder_is_empty(self) == Builder_len(self) = 0

Builder_as_slice(m, self) ==
    LET data == ptr_Builder_data(self.repr)
        len  == Builder_len(self)
    IN  from_raw_parts(m, data, len)

\* Mutant: the mutable view starts one byte late.
Builder_as_slice_mut_Shifted(self) ==
    LET data == ptr_Builder_data(self.repr)
        len  == Builder_len(self)
    IN  [self  |-> self,
         slice |-> [ptr |-> IF len > 1 THEN data + 1 ELSE data,
                    len |-> IF len > 1 THEN len - 1 ELSE len]]

\* Mutant: handing out the mutable view shrinks the builder.
Builder_as_slice_mut_Shrink(self) ==
    LET data == ptr_Builder_data(self.repr)
        len  == Builder_len(self)
    IN  [self  |-> Data([ptr |-> data, len |-> IF len > 1 THEN len - 1 ELSE len]),
         slice |-> [ptr |-> data, len |-> len]]

\* Builder::as_slice_mut(&mut self): the builder as the call leaves it, and
\* the mutable slice (from_raw_parts_mut) it returns.
Builder_as_slice_mut(self) ==
    LET data == ptr_Builder_data(self.repr)
        len  == Builder_len(self)
    IN  [self |-> self, slice |-> [ptr |-> data, len |-> len]]

\* impl Deref for Builder
Builder_deref(m, self) == Builder_as_slice(m, self)

\* impl DerefMut for Builder
Builder_deref_mut(self) == Builder_as_slice_mut(self)

\* impl PartialEq<Builder> for Builder
Builder_eq_Builder(m, self, other) ==
    SliceEq(Builder_deref(m, self), Builder_deref(m, other))

\* Mutant: views are compared by the handle they wrap, not by their bytes.
Builder_eq_Reader_ByHandle(m, self, other) == self.repr = other.repr

\* impl PartialEq<Reader> for Builder
Builder_eq_Reader(m, self, other) ==
    SliceEq(Builder_deref(m, self), Reader_deref(m, other))

\* impl PartialEq<Builder> for Reader
Reader_eq_Builder(m, self, other) ==
    SliceEq(Reader_deref(m, self), Builder_deref(m, other))

\* impl PartialEq<[u8]> for Builder
Builder_eq_bytes(m, self, other) == SliceEq(Builder_deref(m, self), other)

\* impl PartialEq<Builder> for [u8]
bytes_eq_Builder(m, self, other) == SliceEq(self, Builder_deref(m, other))

(* --------------------------- borrow discipline -------------------------- *)

\* Two byte ranges share at least one byte.
Overlaps(h1, h2) ==
    /\ h1.len > 0
    /\ h2.len > 0
    /\ h1.ptr < h2.ptr + h2.len
    /\ h2.ptr < h1.ptr + h1.len

\* Taking exclusive access to a range ends the borrow of every Reader that
\* shares bytes with it (as_reader(&self) against as_slice_mut(&mut self)).
EndBorrow(rd, range) ==
    IF rd.tag = "Some" /\ Overlaps(rd.val.repr, range) THEN None ELSE rd

(* ------------------------------- state ---------------------------------- *)

Result(op, arg, bytes, out) ==
    [op |-> op, arg |-> arg, bytes |-> bytes, out |-> out]

Init ==
    /\ mem \in [Addr -> Byte]
    /\ r = Some(Reader_default)
    /\ b = Builder_empty
    /\ res = Result("init", <<>>, <<>>, Ok(<<>>))
    /\ pc = "running"

ReaderEmpty ==
    /\ pc = "running"
    /\ r' = Some(Reader_empty)
    /\ res' = Result("Reader::empty", <<>>, <<>>, Ok(Reader_empty))
    /\ UNCHANGED <<mem, b, pc>>

ReaderDefault ==
    /\ pc = "running"
    /\ r' = Some(Reader_default)
    /\ res' = Result("Reader::default", <<>>, <<>>, Ok(Reader_default))
    /\ UNCHANGED <<mem, b, pc>>

ReaderFromPtr(h) ==
    /\ pc = "running"
    /\ r' = Some(Reader_from_ptr(h))
    /\ res' = Result("Reader::from", h, <<>>, Ok(Reader_from_ptr(h)))
    /\ UNCHANGED <<mem, b, pc>>

ReaderFromSlice(s) ==
    /\ pc = "running"
    /\ LET o == Reader_from_slice(s)
       IN  /\ res' = Result("Reader::from_slice", s, SliceBytes(mem, s), o)
           /\ IF o.tag = "Ok"
              THEN r' = Some(o.val) /\ pc' = pc
              ELSE r' = r /\ pc' = "panicked"
    /\ UNCHANGED <<mem, b>>

ReaderTryFromSlice(s) ==
    /\ pc = "running"
    /\ LET o == Reader_try_from_slice(s)
       IN  /\ res' = Result("Reader::try_from_slice", s, SliceBytes(mem, s), o)
           /\ r' = IF o.tag = "Ok" THEN Some(o.val) ELSE r
    /\ UNCHANGED <<mem, b, pc>>

ReaderQuery ==
    /\ pc = "running"
    /\ r.tag = "Some"
    /\ res' = Result("Reader::query", <<>>, <<>>,
                     [len      |-> Reader_len(r.val),
                      is_empty |-> Reader_is_empty(r.val),
                      as_slice |-> Reader_as_slice(mem, r.val),
                      deref    |-> Reader_deref(mem, r.val),
                      repr     |-> ptr_Reader_from(r.val)])
    /\ UNCHANGED <<mem, r, b, pc>>

BuilderEmpty ==
    /\ pc = "running"
    /\ b' = Builder_empty
    /\ res' = Result("Builder::empty", <<>>, <<>>, Ok(Builder_empty))
    /\ UNCHANGED <<mem, r, pc>>

BuilderFromPtr(h) ==
    /\ pc = "running"
    /\ b' = Builder_from_ptr(h)
    /\ r' = EndBorrow(r, h)
    /\ res' = Result("Builder::from", h, <<>>, Ok(Builder_from_ptr(h)))
    /\ UNCHANGED <<mem, pc>>

BuilderAsReader ==
    /\ pc = "running"
    /\ r' = Some(Builder_as_reader(b))
    /\ res' = Result("Builder::as_reader", <<>>, <<>>, Ok(Builder_as_reader(b)))
    /\ UNCHANGED <<mem, b, pc>>

BuilderQuery ==
    /\ pc = "running"
    /\ res' = Result("Builder::query", <<>>, <<>>,
                     [len      |-> Builder_len(b),
                      is_empty |-> Builder_is_empty(b),
                      as_slice |-> Builder_as_slice(mem, b),
                      deref    |-> Builder_deref(mem, b),
                      repr     |-> ptr_Builder_from(b)])
    /\ UNCHANGED <<mem, r, b, pc>>

\* b.as_slice_mut()[i] = v
BuilderWrite(i, v) ==
    /\ pc = "running"
    /\ LET view == Builder_as_slice_mut(b)
       IN  /\ i < view.slice.len
           /\ mem' = [mem EXCEPT ![view.slice.ptr + i] = v]
           /\ b' = view.self
           /\ r' = EndBorrow(r, view.slice)
    /\ res' = Result("Builder::as_slice_mut", <<i, v>>, <<>>, Ok(<<>>))
    /\ pc' = pc

\* b[i] = v
BuilderDerefWrite(i, v) ==
    /\ pc = "running"
    /\ LET view == Builder_deref_mut(b)
       IN  /\ i < view.slice.len
           /\ mem' = [mem EXCEPT ![view.slice.ptr + i] = v]
           /\ b' = view.self
           /\ r' = EndBorrow(r, view.slice)
    /\ res' = Result("Builder::deref_mut", <<i, v>>, <<>>, Ok(<<>>))
    /\ pc' = pc

\* Every == of the module between the reader, the builder, the builder's
\* projection and the raw bytes x.
Compare(x) ==
    /\ pc = "running"
    /\ r.tag = "Some"
    /\ LET rd == r.val
           pr == Builder_as_reader(b)
       IN  res' = Result("==", <<>>, x,
                [r_r   |-> Reader_eq_Reader(mem, rd, rd),
                 r_pr  |-> Reader_eq_Reader(mem, rd, pr),
                 pr_r  |-> Reader_eq_Reader(mem, pr, rd),
                 b_b   |-> Builder_eq_Builder(mem, b, b),
                 b_r   |-> Builder_eq_Reader(mem, b, rd),
                 r_b   |-> Reader_eq_Builder(mem, rd, b),
                 r_x   |-> Reader_eq_bytes(mem, rd, x),
                 x_r   |-> bytes_eq_Reader(mem, x, rd),
                 b_x   |-> Builder_eq_bytes(mem, b, x),
                 x_b   |-> bytes_eq_Builder(mem, x, b)])
    /\ UNCHANGED <<mem, r, b, pc>>

Next ==
    \/ ReaderEmpty
    \/ ReaderDefault
    \/ \E h \in ValidHandles : ReaderFromPtr(h)
    \/ \E s \in Slices : ReaderFromSlice(s)
    \/ \E s \in Slices : ReaderTryFromSlice(s)
    \/ ReaderQuery
    \/ BuilderEmpty
    \/ \E h \in BuilderHandles : BuilderFromPtr(h)
    \/ BuilderAsReader
    \/ BuilderQuery
    \/ \E i \in 0..(MAX_BLOB_LEN - 1), v \in Byte : BuilderWrite(i, v)
    \/ \E i \in 0..(MAX_BLOB_LEN - 1), v \in Byte : BuilderDerefWrite(i, v)
    \/ \E x \in {SliceBytes(mem, s) : s \in Slices} : Compare(x)

Spec == Init /\ [][Next]_vars

(* ------------------------------ properties ------------------------------ *)

\* Two byte sequences have the same length and the same byte at every index.
BytewiseEqual(u, v) ==
    /\ Len(u) = Len(v)
    /\ \A k \in DOMAIN u : u[k] = v[k]

\* C1: for every byte sequence s with len(s) <= MAX_BLOB_LEN,
\* try_from_slice(s) succeeds, the Reader's as_slice() is identical to s
\* (same length, same byte at every index) and its len() equals len(s).
C1_TryFromSliceRoundTrip ==
    (res.op = "Reader::try_from_slice" /\ Len(res.bytes) <= MAX_BLOB_LEN) =>
        /\ res.out.tag = "Ok"
        /\ r = Some(res.out.val)
        /\ BytewiseEqual(Reader_as_slice(mem, res.out.val), res.bytes)
        /\ Reader_len(res.out.val) = Len(res.bytes)

C1_Witness ==
    /\ res.op = "Reader::try_from_slice"
    /\ res.bytes = <<0, 9>>
    /\ res.out.tag = "Ok"

\* C2: for every byte sequence s with len(s) > MAX_BLOB_LEN,
\* try_from_slice(s) yields TryFromSliceError and no Reader (nothing is
\* clipped to the maximum), and the error is produced for no s with
\* len(s) <= MAX_BLOB_LEN.
C2_OversizeRejected ==
    res.op = "Reader::try_from_slice" =>
        /\ Len(res.bytes) > MAX_BLOB_LEN => res.out = Err(TryFromSliceError)
        /\ Len(res.bytes) > MAX_BLOB_LEN => res.out.tag # "Ok"
        /\ res.out.tag = "Err" => Len(res.bytes) > MAX_BLOB_LEN

C2_Witness ==
    /\ res.op = "Reader::try_from_slice"
    /\ Len(res.bytes) = MAX_BLOB_LEN + 1
    /\ res.out.tag = "Err"

\* C3 (as stated): from_slice(s) with len(s) > MAX_BLOB_LEN fails fatally and
\* the fault's message is the text TryFromSliceError displays.
C3_FaultCarriesDisplayText ==
    (res.op = "Reader::from_slice" /\ Len(res.bytes) > MAX_BLOB_LEN) =>
        /\ res.out.tag = "Panic"
        /\ res.out.msg = TryFromSliceError_fmt(TryFromSliceError)

\* C3 (amended): from_slice(s) with len(s) > MAX_BLOB_LEN fails fatally and
\* the fault's message is the fixed text "slice is too large to be contained
\* within a cap'n proto message", which is not the text TryFromSliceError
\* displays.
C3_FaultCarriesOwnText ==
    (res.op = "Reader::from_slice" /\ Len(res.bytes) > MAX_BLOB_LEN) =>
        /\ res.out.tag = "Panic"
        /\ pc = "panicked"
        /\ res.out.msg =
             "slice is too large to be contained within a cap'n proto message"
        /\ res.out.msg # TryFromSliceError_fmt(TryFromSliceError)

C3_Witness ==
    /\ res.op = "Reader::from_slice"
    /\ Len(res.bytes) > MAX_BLOB_LEN
    /\ pc = "panicked"

IsWrite(op) == op \in {"Builder::as_slice_mut", "Builder::deref_mut"}

\* C4: read-after-write on a Builder: after writing byte v at index
\* i < len() through as_slice_mut() or DerefMut, as_slice()[i] = v, every
\* other index holds the byte it held before, and len() is unchanged.
C4_ReadAfterWrite ==
    [][IsWrite(res'.op) =>
          LET i      == res'.arg[1]
              v      == res'.arg[2]
              before == Builder_as_slice(mem, b)
              after  == Builder_as_slice(mem', b')
          IN  /\ i < Builder_len(b)
              /\ Builder_len(b') = Builder_len(b)
              /\ Len(after) = Len(before)
              /\ after[i + 1] = v
              /\ \A j \in 0..(Len(before) - 1) :
                    j # i => after[j + 1] = before[j + 1]]_vars

C4_Witness ==
    /\ res.op = "Builder::as_slice_mut"
    /\ res.arg = <<1, 9>>
    /\ Builder_as_slice(mem, b) = <<0, 9>>

\* C5: alias consistency: in every reachable state b.as_reader() has the
\* pointer and the length of b and reads the bytes b.as_slice() reads; the
\* Reader as_reader() returned is that alias of the current memory.
C5_AliasConsistency ==
    /\ LET pr == Builder_as_reader(b)
       IN  /\ ptr_Reader_from(pr).ptr = ptr_Builder_data(ptr_Builder_from(b))
           /\ Reader_len(pr) = Builder_len(b)
           /\ BytewiseEqual(Reader_as_slice(mem, pr), Builder_as_slice(mem, b))
    /\ res.op = "Builder::as_reader" =>
           /\ r = Some(res.out.val)
           /\ ptr_Reader_from(r.val) = ptr_Builder_from(b)
           /\ BytewiseEqual(Reader_as_slice(mem, r.val), Builder_as_slice(mem, b))

C5_Witness ==
    /\ res.op = "Builder::as_reader"
    /\ ptr_Builder_data(b.repr) = 1
    /\ Reader_as_slice(mem, r.val) = <<0, 9>>

\* C6: every Reader and Builder that exists satisfies
\* 0 <= len() <= MAX_BLOB_LEN, given that the handles passed to the trusted
\* conversions satisfy it.
C6_LengthBound ==
    /\ Builder_len(b) \in 0..MAX_BLOB_LEN
    /\ Reader_len(Builder_as_reader(b)) \in 0..MAX_BLOB_LEN
    /\ r.tag = "Some" => Reader_len(r.val) \in 0..MAX_BLOB_LEN
    /\ (res.op \in {"Reader::from_slice", "Reader::try_from_slice"}
            /\ res.out.tag = "Ok") =>
           Reader_len(res.out.val) \in 0..MAX_BLOB_LEN

C6_Witness ==
    /\ res.op = "Reader::try_from_slice"
    /\ r.tag = "Some"
    /\ Reader_len(r.val) = MAX_BLOB_LEN
    /\ Builder_len(b) = MAX_BLOB_LEN

ReaderConstructors ==
    {"Reader::empty", "Reader::default", "Reader::from", "Reader::from_slice",
     "Reader::try_from_slice", "Builder::as_reader"}

BuilderConstructors == {"Builder::empty", "Builder::from"}

\* C7: a view's length never changes after construction: every step that
\* does not construct the Builder leaves its len() as it was, and every step
\* that does not construct the Reader leaves a Reader that still exists with
\* the len() it had.
C7_LengthFixed ==
    [][/\ res'.op \notin BuilderConstructors =>
              Builder_len(b') = Builder_len(b)
       /\ (res'.op \notin ReaderConstructors /\ r'.tag = "Some") =>
              /\ r.tag = "Some"
              /\ Reader_len(r'.val) = Reader_len(r.val)]_vars

C7_Witness ==
    /\ res.op = "Builder::deref_mut"
    /\ Builder_len(b) = MAX_BLOB_LEN
    /\ r.tag = "Some"
    /\ Reader_len(r.val) = MAX_BLOB_LEN

C9_Empty ==
    /\ res.op = "Reader::empty" =>
           /\ r = Some(res.out.val)
           /\ Reader_len(r.val) = 0
           /\ Reader_is_empty(r.val)
           /\ Reader_as_slice(mem, r.val) = <<>>
    /\ res.op = "Builder::empty" =>
           /\ b = res.out.val
           /\ Builder_len(b) = 0
           /\ Builder_is_empty(b)
           /\ Builder_as_slice(mem, b) = <<>>
    /\ res.op = "Reader::default" =>
           /\ r = Some(res.out.val)
           /\ r.val = Reader_empty
           /\ Reader_eq_Reader(mem, r.val, Reader_empty)
    /\ r.tag = "Some" => (Reader_is_empty(r.val) <=> Reader_len(r.val) = 0)
    /\ Builder_is_empty(b) <=> Builder_len(b) = 0

C9_Witness ==
    /\ res.op = "Builder::empty"
    /\ r.tag = "Some"
    /\ Reader_is_empty(r.val)
    /\ r.val # Reader_empty

\* C10: from_slice and try_from_slice are the fatal and the non-fatal variant
\* of one validation: on every s, from_slice(s) faults exactly when
\* try_from_slice(s) returns the error, and when try_from_slice(s) is Ok(r)
\* from_slice(s) returns a Reader equal to r with the same len() and
\* as_slice().
C10_SameValidation ==
    /\ res.op = "Reader::from_slice" =>
           LET t == Reader_try_from_slice(res.arg)
           IN  /\ res.out.tag = "Panic" <=> t.tag = "Err"
               /\ t.tag = "Ok" =>
                      /\ res.out.tag = "Ok"
                      /\ Reader_eq_Reader(mem, res.out.val, t.val)
                      /\ Reader_len(res.out.val) = Reader_len(t.val)
                      /\ Reader_as_slice(mem, res.out.val) =
                             Reader_as_slice(mem, t.val)
    /\ res.op = "Reader::try_from_slice" =>
           LET f == Reader_from_slice(res.arg)
           IN  /\ res.out.tag = "Err" <=> f.tag = "Panic"
               /\ res.out.tag = "Ok" =>
                      /\ f.tag = "Ok"
                      /\ Reader_eq_Reader(mem, f.val, res.out.val)
                      /\ Reader_len(f.val) = Reader_len(res.out.val)

C10_Witness ==
    /\ res.op = "Reader::from_slice"
    /\ res.out.tag = "Ok"
    /\ Len(res.bytes) = MAX_BLOB_LEN

====
